---- MODULE Spec2Model ----
(***************************************************************************)
(* crrapo: location of the RSA-encrypted key block inside an encrypted     *)
(* file (src/decrypt.c) and the exiting error handlers                     *)
(* (src/error_handling.c).  One invocation of decrypt_file() is a          *)
(* sequence of steps; pc is the position inside it.                        *)
(***************************************************************************)
EXTENDS Integers, Sequences, FiniteSets, TLC

(* ------------------------------ bounds -------------------------------- *)
MaxFileLen == 5        \* longest encrypted file, in bytes (header included)
MaxBlockSize == 4      \* largest block_size argument
MaxOverride == 1       \* largest passed_block_index argument
MaxRuns == 2           \* invocations of decrypt_file on the same arguments

(* ----------------- sizes fixed by czarrapo.h (scaled) ----------------- *)
_CHALLENGE_SIZE == 1
_AUTH_SIZE == 1
_BLOCK_HASH_SIZE == 1

Byte == 0..1
NoFile == <<2>>                     \* the path names no readable file
RsaSizes == {2, 4}                  \* RSA_size() of the keys considered
Passwords == {<< >>, <<1>>}         \* C strings: no zero byte inside
RSA_NO_PADDING == "RSA_NO_PADDING"
RSA_PKCS1_OAEP_PADDING == "RSA_PKCS1_OAEP_PADDING"

Min(a, b) == IF a < b THEN a ELSE b
Max(a, b) == IF a > b THEN a ELSE b

RECURSIVE Sum(_)
Sum(s) == IF s = << >> THEN 0 ELSE Head(s) + Sum(Tail(s))

Count(log, e) == Cardinality({k \in 1..Len(log) : log[k] = e})

(* utils: _ispowerof2 *)
_ispowerof2(n) == n > 0 /\ \E k \in 0..n : 2^k = n

(* utils: _get_file_size, a stat()-like query of the path *)
_get_file_size(f) == IF f = NoFile THEN 0 ELSE Len(f)

(* utils: _hash_individual_block(out, in, len, kind): a digest of the      *)
(* input whose width depends on the kind.                                  *)
_hash_individual_block(in, kind) ==
    IF kind = "_BLOCK_HASH"
    THEN [k \in 1.._BLOCK_HASH_SIZE |-> (Sum(in) + Len(in) + k - 1) % 2]
    ELSE [k \in 1.._CHALLENGE_SIZE |-> (Sum(in) + k) % 2]

(* fread(buf, 1, n, fp) at cursor position p of file f: the bytes          *)
(* delivered; fewer than n at the end of the file.                         *)
fread(f, p, n) == SubSeq(f, p + 1, Min(p + n, Len(f)))

(* OpenSSL makes the input a big-endian number: a short input counts as    *)
(* left-padded with zero bytes to the modulus width.                       *)
LeftPad(w, num) ==
    [k \in 1..num |-> IF k <= num - Len(w) THEN 0 ELSE w[k - (num - Len(w))]]

Fail == [len |-> -1, out |-> << >>]

(* RSA_private_decrypt(flen, from, to, rsa, padding) for a key of num      *)
(* bytes: -1, or the plaintext length and the bytes written to `to`.       *)
(* The number must be below the modulus (top byte 0 here).  Without        *)
(* padding the plaintext has the modulus width; with OAEP the encoded      *)
(* message is zero bytes, a 1 marker, then the message, of any length up   *)
(* to num - 2.                                                             *)
RSA_private_decrypt(from, num, pad) ==
    LET b == LeftPad(from, num)
        marks == {k \in 2..num : b[k] = 1}
        m == CHOOSE k \in marks : \A l \in marks : k <= l
    IN  IF Len(from) > num \/ b[1] # 0 THEN Fail
        ELSE IF pad = RSA_NO_PADDING
             THEN [len |-> num, out |-> [k \in 1..num |-> b[num + 1 - k]]]
        ELSE IF marks = {} THEN Fail
        ELSE [len |-> num - m, out |-> SubSeq(b, m + 1, num)]

(* The comparison lets every block_size up to the modulus width go         *)
(* without padding.                                                        *)
DeterminePaddingUpTo(bs, rbs) ==
    IF bs <= rbs THEN RSA_NO_PADDING ELSE RSA_PKCS1_OAEP_PADDING

(* decrypt.c:81-87 *)
DeterminePadding(bs, rbs) ==
    IF bs = rbs THEN RSA_NO_PADDING ELSE RSA_PKCS1_OAEP_PADDING

(* The byte offset returned where the block index is meant. *)
ReturnedIndexIsOffset(off, bs) == off

(* decrypt.c:116 *)
ReturnedIndex(off, bs) == off \div bs

VARIABLES
    \* arguments of decrypt_file and the files they name
    encrypted_file,         \* content of the encrypted file, or NoFile
    private_key_file,       \* whether it holds a PEM key, and its RSA_size
    block_size, password, passed_block_index,
    \* locals of decrypt_file / _find_selected_block / __find_block_slow
    pc, encrypted_file_size, rsa, rsa_block_size, fp, pos,
    fast, challenge, auth, end_of_header, padding, i,
    rsa_block, amount_read, decrypted_block_len, decrypted_block,
    selected_block_index,
    \* observation
    calls,                  \* library calls made, in order
    overrun,                \* most bytes written past decrypted_block
    sought,                 \* positions given to fseek, in order
    padding_used,           \* padding modes given to RSA_private_decrypt
    strategy,               \* "none", "slow" or "fast"
    outcome,                \* "running", "Index", or the error reported
    message,                \* what the error handler printed
    exit_site,              \* function that called the exiting handler
    runs, results

args == <<private_key_file, block_size, password, passed_block_index>>
scan == <<end_of_header, padding, i, rsa_block, amount_read,
          decrypted_block_len, decrypted_block, overrun, sought,
          padding_used>>
hdr == <<fast, challenge, auth>>
hist == <<runs, results>>
fin == <<outcome, message, exit_site>>
vars == <<encrypted_file, args, pc, encrypted_file_size, rsa, rsa_block_size,
          fp, pos, hdr, scan, selected_block_index, calls, strategy, fin, hist>>

KeyFiles == {[pem |-> FALSE, size |-> 0]}
            \cup {[pem |-> TRUE, size |-> n] : n \in RsaSizes}

Files == UNION {[1..n -> Byte] : n \in 0..MaxFileLen} \cup {NoFile}

(* State at entry of decrypt_file: nothing acquired, locals not yet set. *)
Entry ==
    /\ pc = "get_file_size"
    /\ encrypted_file_size = 0
    /\ rsa = "NULL" /\ rsa_block_size = 0
    /\ fp = "NULL" /\ pos = 0
    /\ fast = FALSE /\ challenge = << >> /\ auth = << >>
    /\ end_of_header = 0 /\ padding = "unset" /\ i = 0
    /\ rsa_block = << >> /\ amount_read = 0
    /\ decrypted_block_len = 0 /\ decrypted_block = << >>
    /\ selected_block_index = -1
    /\ calls = << >> /\ overrun = 0 /\ strategy = "none"
    /\ sought = << >> /\ padding_used = {}
    /\ outcome = "running" /\ message = "" /\ exit_site = "none"

Init ==
    /\ encrypted_file \in Files
    /\ private_key_file \in KeyFiles
    /\ block_size \in 0..MaxBlockSize
    /\ password \in Passwords
    /\ passed_block_index \in -1..MaxOverride
    /\ runs = 1 /\ results = << >>
    /\ Entry

(* The handler returns to its caller, which runs on to the end of          *)
(* decrypt_file, as with exit_on_handle = false.                           *)
ExitReturns(kind, msg, site) ==
    /\ pc' = "done"
    /\ outcome' = kind
    /\ message' = msg
    /\ exit_site' = site

(* error_handling.c: every handler called with exit_on_handle ends in      *)
(* exit(1); _handle_simple_error always does.                              *)
Exit(kind, msg, site) ==
    /\ pc' = "exited"
    /\ outcome' = kind
    /\ message' = msg
    /\ exit_site' = site

Log(e) == calls' = Append(calls, e)
Log2(e1, e2) == calls' = calls \o <<e1, e2>>

(* decrypt.c:173 *)
GetFileSize ==
    /\ pc = "get_file_size"
    /\ encrypted_file_size' = _get_file_size(encrypted_file)
    /\ Log("_get_file_size")
    /\ pc' = "check_block_size"
    /\ UNCHANGED <<encrypted_file, args, rsa, rsa_block_size, fp, pos, hdr,
                   scan, selected_block_index, strategy, fin,
                   hist>>

(* decrypt.c:176-180 *)
CheckBlockSize ==
    /\ pc = "check_block_size"
    /\ IF ~_ispowerof2(block_size)
       THEN Exit("InvalidBlockSizeError", "block_size must be a power of 2",
                 "decrypt_file")
       ELSE pc' = "read_private_key" /\ UNCHANGED <<fin>>
    /\ UNCHANGED <<encrypted_file, args, encrypted_file_size, rsa,
                   rsa_block_size, fp, pos, hdr, scan, selected_block_index,
                   calls, strategy, hist>>

(* decrypt.c:183-186 with _read_private_key, decrypt.c:20-43: the RSA      *)
(* struct it allocates is handed out only when the PEM file was read.      *)
ReadPrivateKey ==
    /\ pc = "read_private_key"
    /\ IF private_key_file.pem
       THEN /\ rsa' = "live"
            /\ rsa_block_size' = private_key_file.size
            /\ Log("PEM_read_RSAPrivateKey")
            /\ pc' = "find_rsa_block"
            /\ UNCHANGED <<fin>>
       ELSE /\ Log("fopen_key")
            /\ Exit("KeyUnavailableError", "Could not open private key file",
                    "decrypt_file")
            /\ UNCHANGED <<rsa, rsa_block_size>>
    /\ UNCHANGED <<encrypted_file, args, encrypted_file_size, fp, pos, hdr,
                   scan, selected_block_index, strategy, hist>>

(* The search is skipped only for an override above zero. *)
FindRsaBlockZeroSearches ==
    /\ pc = "find_rsa_block"
    /\ IF passed_block_index <= 0
       THEN pc' = "fopen" /\ UNCHANGED selected_block_index
       ELSE pc' = "RSA_free" /\ selected_block_index' = passed_block_index
    /\ UNCHANGED <<encrypted_file, args, encrypted_file_size, rsa,
                   rsa_block_size, fp, pos, hdr, scan, calls, strategy,
                   fin, hist>>

(* decrypt.c:189-193 *)
FindRsaBlock ==
    /\ pc = "find_rsa_block"
    /\ IF passed_block_index < 0
       THEN pc' = "fopen" /\ UNCHANGED selected_block_index
       ELSE pc' = "RSA_free" /\ selected_block_index' = passed_block_index
    /\ UNCHANGED <<encrypted_file, args, encrypted_file_size, rsa,
                   rsa_block_size, fp, pos, hdr, scan, calls, strategy,
                   fin, hist>>

(* decrypt.c:143-145; _handle_RSA_error(msg, true, rsa, NULL) *)
OpenEncryptedFile ==
    /\ pc = "fopen"
    /\ IF encrypted_file = NoFile
       THEN /\ rsa' = "freed"
            /\ Log2("fopen", "RSA_free")
            /\ Exit("FileIOError", "Could not open the encrypted file",
                    "_find_selected_block")
            /\ UNCHANGED <<fp, pos>>
       ELSE /\ fp' = "open" /\ pos' = 0
            /\ Log("fopen")
            /\ pc' = "read_fast"
            /\ UNCHANGED <<rsa, fin>>
    /\ UNCHANGED <<encrypted_file, args, encrypted_file_size, rsa_block_size,
                   hdr, scan, selected_block_index, strategy, hist>>

(* A short read of a header field: _handle_RSA_error(msg, false, rsa,      *)
(* NULL) frees the key, _handle_file_action_error("", true, fp) closes     *)
(* the file and exits.                                                     *)
HeaderTruncated(call, msg, site) ==
    /\ rsa' = "freed"
    /\ fp' = "closed"
    /\ calls' = calls \o <<call, "RSA_free", "fclose">>
    /\ Exit("HeaderTruncatedError", msg, site)

(* decrypt.c:51-55 *)
ReadFastFlag ==
    /\ pc = "read_fast"
    /\ LET got == fread(encrypted_file, pos, 1) IN
       IF Len(got) < 1
       THEN /\ HeaderTruncated("fread_fast", "Could not read fast flag",
                            "_read_basic_header")
            /\ UNCHANGED <<pos, fast>>
       ELSE /\ fast' = (got[1] # 0)
            /\ pos' = pos + 1
            /\ Log("fread_fast")
            /\ pc' = "read_challenge"
            /\ UNCHANGED <<rsa, fp, fin>>
    /\ UNCHANGED <<encrypted_file, args, encrypted_file_size, rsa_block_size,
                   challenge, auth, scan, selected_block_index, strategy,
                   hist>>

(* The short-read test never fires: whatever fread delivered is taken as   *)
(* the challenge.                                                          *)
ReadChallengeAcceptsShort ==
    /\ pc = "read_challenge"
    /\ LET got == fread(encrypted_file, pos, _CHALLENGE_SIZE) IN
       /\ pos' = pos + Len(got)
       /\ challenge' = got
    /\ Log("fread_challenge")
    /\ pc' = "read_auth"
    /\ UNCHANGED <<rsa, fp, fin>>
    /\ UNCHANGED <<encrypted_file, args, encrypted_file_size, rsa_block_size,
                   fast, auth, scan, selected_block_index, strategy, hist>>

(* decrypt.c:57-61 *)
ReadChallenge ==
    /\ pc = "read_challenge"
    /\ LET got == fread(encrypted_file, pos, _CHALLENGE_SIZE) IN
       /\ pos' = pos + Len(got)
       /\ IF Len(got) < _CHALLENGE_SIZE
          THEN /\ HeaderTruncated("fread_challenge", "Could not read challenge",
                               "_read_basic_header")
               /\ UNCHANGED challenge
          ELSE /\ challenge' = got
               /\ Log("fread_challenge")
               /\ pc' = "read_auth"
               /\ UNCHANGED <<rsa, fp, fin>>
    /\ UNCHANGED <<encrypted_file, args, encrypted_file_size, rsa_block_size,
                   fast, auth, scan, selected_block_index, strategy, hist>>

(* The test of the flag is inverted: if (!fast). *)
ReadAuthInverted ==
    /\ pc = "read_auth"
    /\ IF ~fast
       THEN LET got == fread(encrypted_file, pos, _AUTH_SIZE) IN
            /\ pos' = pos + Len(got)
            /\ IF Len(got) < _AUTH_SIZE
               THEN /\ HeaderTruncated("fread_auth", "Could not read auth",
                                    "_find_selected_block")
                    /\ UNCHANGED auth
               ELSE /\ auth' = got
                    /\ Log("fread_auth")
                    /\ pc' = "find_block_fast"
                    /\ UNCHANGED <<rsa, fp, fin>>
       ELSE /\ pc' = "find_block_slow"
            /\ UNCHANGED <<pos, auth, rsa, fp, calls, fin>>
    /\ UNCHANGED <<encrypted_file, args, encrypted_file_size, rsa_block_size,
                   fast, challenge, scan, selected_block_index, strategy,
                   hist>>

(* decrypt.c:152-162: the auth tag is read only in fast mode *)
ReadAuth ==
    /\ pc = "read_auth"
    /\ IF fast
       THEN LET got == fread(encrypted_file, pos, _AUTH_SIZE) IN
            /\ pos' = pos + Len(got)
            /\ IF Len(got) < _AUTH_SIZE
               THEN /\ HeaderTruncated("fread_auth", "Could not read auth",
                                    "_find_selected_block")
                    /\ UNCHANGED auth
               ELSE /\ auth' = got
                    /\ Log("fread_auth")
                    /\ pc' = "find_block_fast"
                    /\ UNCHANGED <<rsa, fp, fin>>
       ELSE /\ pc' = "find_block_slow"
            /\ UNCHANGED <<pos, auth, rsa, fp, calls, fin>>
    /\ UNCHANGED <<encrypted_file, args, encrypted_file_size, rsa_block_size,
                   fast, challenge, scan, selected_block_index, strategy,
                   hist>>

(* decrypt.c:123-130, 159: the stub returns 0 *)
FindBlockFast ==
    /\ pc = "find_block_fast"
    /\ strategy' = "fast"
    /\ selected_block_index' = 0
    /\ pc' = "fclose"
    /\ UNCHANGED <<encrypted_file, args, encrypted_file_size, rsa,
                   rsa_block_size, fp, pos, hdr, scan, calls, fin, hist>>

(* decrypt.c:70-87, 98 (i = 0) *)
FindBlockSlow ==
    /\ pc = "find_block_slow"
    /\ strategy' = "slow"
    /\ end_of_header' = pos
    /\ padding' = DeterminePadding(block_size, rsa_block_size)
    /\ i' = 0
    /\ Log("ftell")
    /\ pc' = "scan_test"
    /\ UNCHANGED <<encrypted_file, args, encrypted_file_size, rsa,
                   rsa_block_size, fp, pos, hdr, rsa_block, amount_read,
                   decrypted_block_len, decrypted_block, overrun, sought,
                   padding_used, selected_block_index, fin, hist>>

(* Exhaustion hands back index 0, as the fast stub does. *)
ScanTestReturnsZero ==
    /\ pc = "scan_test"
    /\ IF i < encrypted_file_size
       THEN pc' = "read_block" /\ UNCHANGED selected_block_index
       ELSE pc' = "fclose" /\ selected_block_index' = 0
    /\ UNCHANGED <<encrypted_file, args, encrypted_file_size, rsa,
                   rsa_block_size, fp, pos, hdr, scan, calls, strategy, fin,
                   hist>>

(* decrypt.c:98 (i < file_size) and 120: _handle_simple_error exits with   *)
(* the key and the file as they are.                                       *)
ScanTest ==
    /\ pc = "scan_test"
    /\ IF i < encrypted_file_size
       THEN pc' = "read_block" /\ UNCHANGED <<fin>>
       ELSE Exit("BlockNotFoundError", "RSA block could not be found",
                 "__find_block_slow")
    /\ UNCHANGED <<encrypted_file, args, encrypted_file_size, rsa,
                   rsa_block_size, fp, pos, hdr, scan, selected_block_index,
                   calls, strategy, hist>>

(* The seek forgets the header: fseek(fp, i, SEEK_SET). *)
ReadBlockFromFileStart ==
    /\ pc = "read_block"
    /\ LET got == fread(encrypted_file, i, rsa_block_size) IN
       /\ rsa_block' = got
       /\ amount_read' = Len(got)
       /\ pos' = i + Len(got)
    /\ sought' = Append(sought, i)
    /\ Log2("fseek", "fread_block")
    /\ pc' = "decrypt_block"
    /\ UNCHANGED <<encrypted_file, args, encrypted_file_size, rsa,
                   rsa_block_size, fp, hdr, end_of_header, padding, i,
                   decrypted_block_len, decrypted_block, overrun,
                   padding_used, selected_block_index, strategy, fin, hist>>

(* decrypt.c:99-100 *)
ReadBlock ==
    /\ pc = "read_block"
    /\ LET got == fread(encrypted_file, end_of_header + i, rsa_block_size) IN
       /\ rsa_block' = got
       /\ amount_read' = Len(got)
       /\ pos' = end_of_header + i + Len(got)
    /\ sought' = Append(sought, end_of_header + i)
    /\ Log2("fseek", "fread_block")
    /\ pc' = "decrypt_block"
    /\ UNCHANGED <<encrypted_file, args, encrypted_file_size, rsa,
                   rsa_block_size, fp, hdr, end_of_header, padding, i,
                   decrypted_block_len, decrypted_block, overrun,
                   padding_used, selected_block_index, strategy, fin, hist>>

(* decrypt.c:76: the room in decrypted_block *)
Capacity == block_size + Len(password)

(* A failed decryption advances i itself before `continue`, on top of the  *)
(* increment of the for statement.                                         *)
DecryptBlockSkipsNext ==
    /\ pc = "decrypt_block"
    /\ LET d == RSA_private_decrypt(SubSeq(rsa_block, 1, amount_read),
                                    rsa_block_size, padding) IN
       /\ decrypted_block_len' = d.len
       /\ IF d.len < 0
          THEN /\ i' = i + block_size + block_size
               /\ pc' = "scan_test"
               /\ UNCHANGED <<decrypted_block, overrun>>
          ELSE /\ decrypted_block' = d.out
               /\ overrun' = Max(overrun, d.len - Capacity)
               /\ pc' = "compare"
               /\ UNCHANGED i
    /\ Log("RSA_private_decrypt")
    /\ padding_used' = padding_used \cup {padding}
    /\ UNCHANGED <<encrypted_file, args, encrypted_file_size, rsa,
                   rsa_block_size, fp, pos, hdr, end_of_header, padding,
                   rsa_block, amount_read, sought, selected_block_index,
                   strategy, fin, hist>>

(* decrypt.c:103-105.  RSA_private_decrypt writes the whole plaintext to   *)
(* decrypted_block; the bytes past its end land in the automatic storage   *)
(* next to it (the window buffer, refilled by the next fread before it is  *)
(* read) and are read back by the hash, so the scan goes on; overrun       *)
(* records that it happened.                                               *)
DecryptBlock ==
    /\ pc = "decrypt_block"
    /\ LET d == RSA_private_decrypt(SubSeq(rsa_block, 1, amount_read),
                                    rsa_block_size, padding) IN
       /\ decrypted_block_len' = d.len
       /\ IF d.len < 0
          THEN /\ i' = i + block_size
               /\ pc' = "scan_test"
               /\ UNCHANGED <<decrypted_block, overrun>>
          ELSE /\ decrypted_block' = d.out
               /\ overrun' = Max(overrun, d.len - Capacity)
               /\ pc' = "compare"
               /\ UNCHANGED i
    /\ Log("RSA_private_decrypt")
    /\ padding_used' = padding_used \cup {padding}
    /\ UNCHANGED <<encrypted_file, args, encrypted_file_size, rsa,
                   rsa_block_size, fp, pos, hdr, end_of_header, padding,
                   rsa_block, amount_read, sought, selected_block_index,
                   strategy, fin, hist>>

(* memcpy with source and destination exchanged: the password buffer is   *)
(* overwritten from decrypted_block (zero bytes here) and i is advanced    *)
(* as on a mismatch.                                                       *)
CompareChallengeClobbersPassword ==
    /\ pc = "compare"
    /\ password' = [k \in 1..Len(password) |-> 0]
    /\ i' = i + block_size
    /\ pc' = "scan_test"
    /\ UNCHANGED <<encrypted_file, private_key_file, block_size,
                   passed_block_index, encrypted_file_size, rsa,
                   rsa_block_size, fp, pos, hdr, end_of_header, padding,
                   rsa_block, amount_read, decrypted_block_len,
                   decrypted_block, overrun, sought, padding_used,
                   selected_block_index, calls, strategy, fin, hist>>

(* The mismatch branch goes back to the loop test without i += block_size. *)
CompareChallengeNoAdvance ==
    /\ pc = "compare"
    /\ LET cat == SubSeq(decrypted_block, 1, decrypted_block_len) \o password
           block_hash == _hash_individual_block(cat, "_BLOCK_HASH")
           new_challenge == _hash_individual_block(block_hash, "_CHALLENGE_HASH")
       IN  /\ decrypted_block' = cat
           /\ overrun' = Max(overrun, Len(cat) - Capacity)
           /\ IF new_challenge = challenge
              THEN /\ selected_block_index' = ReturnedIndex(i, block_size)
                   /\ pc' = "fclose"
              ELSE /\ pc' = "scan_test"
                   /\ UNCHANGED selected_block_index
    /\ UNCHANGED <<encrypted_file, args, encrypted_file_size, rsa,
                   rsa_block_size, fp, pos, hdr, end_of_header, padding, i,
                   rsa_block, amount_read, decrypted_block_len, sought,
                   padding_used, calls, strategy, fin, hist>>

(* decrypt.c:108-117 *)
CompareChallenge ==
    /\ pc = "compare"
    /\ LET cat == SubSeq(decrypted_block, 1, decrypted_block_len) \o password
           block_hash == _hash_individual_block(cat, "_BLOCK_HASH")
           new_challenge == _hash_individual_block(block_hash, "_CHALLENGE_HASH")
       IN  /\ decrypted_block' = cat
           /\ overrun' = Max(overrun, Len(cat) - Capacity)
           /\ IF new_challenge = challenge
              THEN /\ selected_block_index' = ReturnedIndex(i, block_size)
                   /\ pc' = "fclose"
                   /\ UNCHANGED i
              ELSE /\ i' = i + block_size
                   /\ pc' = "scan_test"
                   /\ UNCHANGED selected_block_index
    /\ UNCHANGED <<encrypted_file, args, encrypted_file_size, rsa,
                   rsa_block_size, fp, pos, hdr, end_of_header, padding,
                   rsa_block, amount_read, decrypted_block_len, sought,
                   padding_used, calls, strategy, fin, hist>>

(* decrypt.c:164-165 *)
CloseFile ==
    /\ pc = "fclose"
    /\ fp' = "closed"
    /\ Log("fclose")
    /\ pc' = "RSA_free"
    /\ UNCHANGED <<encrypted_file, args, encrypted_file_size, rsa,
                   rsa_block_size, pos, hdr, scan, selected_block_index,
                   strategy, fin, hist>>

(* decrypt.c:194-201 *)
FreeKey ==
    /\ pc = "RSA_free"
    /\ rsa' = "freed"
    /\ Log("RSA_free")
    /\ pc' = "done"
    /\ outcome' = "Index"
    /\ UNCHANGED <<encrypted_file, args, encrypted_file_size, rsa_block_size,
                   fp, pos, hdr, scan, selected_block_index, strategy,
                   message, exit_site, hist>>

(* A new process enters decrypt_file: the state of Entry, primed. *)
Reenter ==
    /\ pc' = "get_file_size"
    /\ encrypted_file_size' = 0
    /\ rsa' = "NULL" /\ rsa_block_size' = 0
    /\ fp' = "NULL" /\ pos' = 0
    /\ fast' = FALSE /\ challenge' = << >> /\ auth' = << >>
    /\ end_of_header' = 0 /\ padding' = "unset" /\ i' = 0
    /\ rsa_block' = << >> /\ amount_read' = 0
    /\ decrypted_block_len' = 0 /\ decrypted_block' = << >>
    /\ selected_block_index' = -1
    /\ calls' = << >> /\ overrun' = 0 /\ strategy' = "none"
    /\ sought' = << >> /\ padding_used' = {}
    /\ outcome' = "running" /\ message' = "" /\ exit_site' = "none"

Terminated == pc \in {"done", "exited"}

Result == [file |-> encrypted_file, outcome |-> outcome,
           index |-> selected_block_index]

(* The caller runs decrypt_file again in a new process on the same         *)
(* arguments. *)
Rerun ==
    /\ Terminated
    /\ runs < MaxRuns
    /\ runs' = runs + 1
    /\ results' = Append(results, Result)
    /\ Reenter
    /\ UNCHANGED <<encrypted_file, args>>

(* Between two invocations one byte of the stored challenge is changed. *)
CorruptChallenge ==
    /\ Terminated
    /\ runs < MaxRuns
    /\ encrypted_file # NoFile
    /\ \E p \in 2..(1 + _CHALLENGE_SIZE), b \in Byte :
          /\ p <= Len(encrypted_file)
          /\ b # encrypted_file[p]
          /\ encrypted_file' = [encrypted_file EXCEPT ![p] = b]
    /\ runs' = runs + 1
    /\ results' = Append(results, Result)
    /\ Reenter
    /\ UNCHANGED args

Next ==
    \/ GetFileSize
    \/ CheckBlockSize
    \/ ReadPrivateKey
    \/ FindRsaBlock
    \/ OpenEncryptedFile
    \/ ReadFastFlag
    \/ ReadChallenge
    \/ ReadAuth
    \/ FindBlockFast
    \/ FindBlockSlow
    \/ ScanTest
    \/ ReadBlock
    \/ DecryptBlock
    \/ CompareChallenge
    \/ CloseFile
    \/ FreeKey
    \/ Rerun
    \/ CorruptChallenge

Spec == Init /\ [][Next]_vars

TypeOK ==
    /\ pc \in {"get_file_size", "check_block_size", "read_private_key",
               "find_rsa_block", "fopen", "read_fast", "read_challenge",
               "read_auth", "find_block_fast", "find_block_slow", "scan_test",
               "read_block", "decrypt_block", "compare", "fclose", "RSA_free",
               "done", "exited"}
    /\ rsa \in {"NULL", "live", "freed"}
    /\ fp \in {"NULL", "open", "closed"}
    /\ runs \in 1..MaxRuns

(* ----------------------- vocabulary of the claims ---------------------- *)
(* The file as the encoder lays it out: flag, challenge, [auth], blocks. *)
StoredChallenge(f) == SubSeq(f, 2, 1 + _CHALLENGE_SIZE)
HeaderComplete(f) ==
    /\ f # NoFile
    /\ Len(f) >= 1 + _CHALLENGE_SIZE
    /\ f[1] # 0 => Len(f) >= 1 + _CHALLENGE_SIZE + _AUTH_SIZE
SlowFile(f) == HeaderComplete(f) /\ f[1] = 0
ScanOrigin == 1 + _CHALLENGE_SIZE

(* The arguments let the invocation reach the search. *)
SearchArgs ==
    /\ _ispowerof2(block_size)
    /\ private_key_file.pem
    /\ passed_block_index < 0

(* The window of block index j decrypts and reproduces the challenge. *)
Matches(j) ==
    LET rbs == private_key_file.size
        d == RSA_private_decrypt(
                 fread(encrypted_file, ScanOrigin + j * block_size, rbs),
                 rbs, DeterminePadding(block_size, rbs))
    IN  /\ d.len >= 0
        /\ _hash_individual_block(
               _hash_individual_block(d.out \o password, "_BLOCK_HASH"),
               "_CHALLENGE_HASH") = StoredChallenge(encrypted_file)

Decrypts(j) ==
    LET rbs == private_key_file.size IN
    RSA_private_decrypt(
        fread(encrypted_file, ScanOrigin + j * block_size, rbs),
        rbs, DeterminePadding(block_size, rbs)).len >= 0

(* Block indices whose offset is below the file_size the scan is given. *)
ScanIndices ==
    {j \in 0..Len(encrypted_file) : j * block_size < Len(encrypted_file)}

ScanCalls == {"fseek", "fread_block", "RSA_private_decrypt"}
Scanned == \E k \in 1..Len(calls) : calls[k] \in ScanCalls

(* C1: in slow mode a returned index r names a window that decrypts and    *)
(* whose Hash2(Hash1(plaintext || password)) equals the header challenge,  *)
(* and no index below r does.                                              *)
C1_FirstMatchWins ==
    (strategy = "slow" /\ selected_block_index >= 0) =>
        /\ Matches(selected_block_index)
        /\ \A j \in 0..(selected_block_index - 1) : ~Matches(j)

C1_Witness ==
    /\ pc = "done" /\ strategy = "slow"
    /\ selected_block_index >= 1
    /\ \E j \in 0..(selected_block_index - 1) : Decrypts(j)

C3_ReturnsTheBlock ==
    /\ \A k \in ScanIndices :
          (Terminated /\ SearchArgs /\ SlowFile(encrypted_file)
              /\ Matches(k) /\ \A j \in ScanIndices \ {k} : ~Matches(j)) =>
              (outcome = "Index" /\ selected_block_index = k)
    /\ \A n \in 1..Len(results) :
          (Terminated /\ results[n].file = encrypted_file) =>
              results[n] = Result

C3_Witness ==
    /\ pc = "done" /\ strategy = "slow"
    /\ selected_block_index = 1
    /\ \A j \in ScanIndices \ {1} : ~Matches(j)
    /\ results = <<Result>>

(* C4: a block_size that is no power of two fails with                     *)
(* InvalidBlockSizeError before any file I/O: no open, size query, seek    *)
(* or read precedes the failure.                                           *)
C4_NoIOBeforeInvalidBlockSize ==
    outcome = "InvalidBlockSizeError" => calls = << >>

(* C5: on every exit path on which the key handle was acquired it is       *)
(* released exactly once.                                                  *)
C5_KeyReleasedOnce ==
    (Terminated /\ rsa # "NULL") => Count(calls, "RSA_free") = 1

(* C6: once the encrypted file is open, its handle is closed exactly once  *)
(* on every exit path.                                                     *)
C6_FileClosedOnce ==
    (Terminated /\ fp # "NULL") => Count(calls, "fclose") = 1

(* C7: with a non-negative override the selected index is the override     *)
(* and no seek, window read or decryption of block data happens.           *)
C7_OverrideSkipsScan ==
    passed_block_index >= 0 =>
        /\ ~Scanned
        /\ pc = "done" => selected_block_index = passed_block_index

C7_Witness ==
    /\ pc = "done" /\ passed_block_index >= 0
    /\ SlowFile(encrypted_file)
    /\ Len(encrypted_file) > ScanOrigin

(* C8: with a non-negative override the header is still read, so a file    *)
(* with a truncated header fails with HeaderTruncatedError.                *)
C8_OverrideStillReadsHeader ==
    (Terminated /\ passed_block_index >= 0 /\ _ispowerof2(block_size)
        /\ private_key_file.pem /\ encrypted_file # NoFile
        /\ ~HeaderComplete(encrypted_file)) =>
        outcome = "HeaderTruncatedError"

LocatorFunctions ==
    {"_read_basic_header", "_find_selected_block", "__find_block_slow"}

C10_InvalidConfiguration ==
    (rsa # "NULL" /\ rsa_block_size < block_size) =>
        /\ ~Scanned
        /\ (Terminated /\ SearchArgs /\ SlowFile(encrypted_file)) =>
              outcome = "InvalidConfigurationError"

ScanPcs == {"scan_test", "read_block", "decrypt_block", "compare"}

(* C11: the padding mode is chosen once, before the first candidate, and   *)
(* every candidate decryption of the scan uses it: no padding when         *)
(* block_size equals rsa_block_size, OAEP for any smaller block_size.      *)
C11_PaddingChosenOnce ==
    /\ sought # << >> => padding # "unset"
    /\ Cardinality(padding_used) <= 1
    /\ block_size = rsa_block_size =>
          /\ padding_used \subseteq {RSA_NO_PADDING}
          /\ pc \in ScanPcs => padding = RSA_NO_PADDING
    /\ block_size < rsa_block_size =>
          /\ padding_used \subseteq {RSA_PKCS1_OAEP_PADDING}
          /\ pc \in ScanPcs => padding = RSA_PKCS1_OAEP_PADDING

C11_Witness ==
    /\ Terminated /\ strategy = "slow"
    /\ block_size < rsa_block_size
    /\ Count(calls, "RSA_private_decrypt") >= 2
    /\ padding_used = {RSA_PKCS1_OAEP_PADDING}

(* The fast-mode file layout and the tag of spec section 4.5:              *)
(* AuthHash(challenge || index || password).                               *)
FastFile(f) == HeaderComplete(f) /\ f[1] # 0
StoredAuth(f) == SubSeq(f, 2 + _CHALLENGE_SIZE, 1 + _CHALLENGE_SIZE + _AUTH_SIZE)
AuthHash(in) == [k \in 1.._AUTH_SIZE |-> (Sum(in) + Len(in) + k) % 2]
Authenticated(j) ==
    AuthHash(StoredChallenge(encrypted_file) \o <<j>> \o password)
        = StoredAuth(encrypted_file)
FastIndices ==
    {j \in 0..Len(encrypted_file) :
        1 + _CHALLENGE_SIZE + _AUTH_SIZE + j * block_size
            < Len(encrypted_file)}

(* C12: for a fast-mode file an index is returned only when it is          *)
(* authenticated against the stored auth tag, and when no candidate index  *)
(* within the file is authenticated the result is BlockNotFoundError.      *)
C12_FastIndexAuthenticated ==
    (Terminated /\ SearchArgs /\ FastFile(encrypted_file)) =>
        IF \E j \in FastIndices : Authenticated(j)
        THEN outcome = "Index" /\ Authenticated(selected_block_index)
        ELSE outcome = "BlockNotFoundError"

(* The header field a truncated file runs out in, and the message that     *)
(* names it.                                                               *)
TruncatedField(f) ==
    IF Len(f) < 1 THEN "Could not read fast flag"
    ELSE IF Len(f) < 1 + _CHALLENGE_SIZE THEN "Could not read challenge"
    ELSE "Could not read auth"

(* C13: a short read of the mode flag, of the challenge or (Fast) of the   *)
(* auth tag ends the invocation with HeaderTruncatedError and the message  *)
(* of that field, and no scan iteration or decryption follows.             *)
C13_HeaderTruncated ==
    /\ (Terminated /\ SearchArgs /\ encrypted_file # NoFile
           /\ ~HeaderComplete(encrypted_file)) =>
          /\ outcome = "HeaderTruncatedError"
          /\ message = TruncatedField(encrypted_file)
    /\ outcome = "HeaderTruncatedError" =>
          /\ pc = "exited"
          /\ ~Scanned /\ strategy = "none"
          /\ ~HeaderComplete(encrypted_file)

C13_Witness ==
    /\ pc = "exited" /\ outcome = "HeaderTruncatedError"
    /\ message = "Could not read auth"
    /\ Len(encrypted_file) = 1 + _CHALLENGE_SIZE

Called(e) == Count(calls, e) > 0
Before(a, b) ==
    \A ka, kb \in 1..Len(calls) :
        (calls[ka] = a /\ calls[kb] = b) => ka < kb

(* The state part of C14. *)
HeaderOrderAndDispatch ==
    /\ Called("fread_challenge") => Called("fread_fast")
    /\ Called("fread_auth") => Called("fread_challenge")
    /\ Before("fread_fast", "fread_challenge")
    /\ Before("fread_challenge", "fread_auth")
    /\ Count(calls, "fread_fast") <= 1
    /\ Count(calls, "fread_challenge") <= 1
    /\ Count(calls, "fread_auth") <= 1
    /\ Called("fread_auth") => encrypted_file[1] # 0
    /\ strategy # "none" => (Called("fread_auth") <=> encrypted_file[1] # 0)
    /\ strategy = "fast" => encrypted_file[1] # 0
    /\ strategy = "slow" => encrypted_file[1] = 0
    /\ (Terminated /\ SearchArgs /\ HeaderComplete(encrypted_file)) =>
          strategy = IF encrypted_file[1] # 0 THEN "fast" ELSE "slow"

(* The step part of C14: decrypt.c:159-165, 190. *)
ReturnedIndexKept ==
    pc \in {"fclose", "RSA_free"} =>
        selected_block_index' = selected_block_index

(* C14: the header is read as mode flag, challenge, then auth tag; the     *)
(* auth tag exactly when the flag read is Fast; the fast strategy runs     *)
(* exactly for Fast and the slow one exactly for Slow; and the index the   *)
(* strategy returned stays the selected block index to the end.            *)
C14_HeaderOrderAndDispatch ==
    []HeaderOrderAndDispatch /\ [][ReturnedIndexKept]_vars

C14_Witness ==
    /\ pc = "done" /\ strategy = "fast"
    /\ calls = <<"_get_file_size", "PEM_read_RSAPrivateKey", "fopen",
                 "fread_fast", "fread_challenge", "fread_auth", "fclose",
                 "RSA_free">>

(* C15: every candidate window of the slow scan starts at the scan origin  *)
(* plus a multiple of block_size that is below the number of bytes after   *)
(* the header, so no candidate offset is at or beyond the end of the file. *)
C15_ScanWithinBlockData ==
    \A k \in 1..Len(sought) :
        /\ sought[k] >= end_of_header
        /\ (sought[k] - end_of_header) % block_size = 0
        /\ sought[k] < Len(encrypted_file)

(* C16: a failed decryption, also of a short window near the end of the    *)
(* file, raises no error and does not end the scan: the offsets tried are  *)
(* 0, block_size, 2*block_size, ... with none skipped or repeated, up to   *)
(* the match or to exhaustion.                                             *)
C16_ScanVisitsEveryOffset ==
    strategy = "slow" =>
        /\ \A k \in 1..Len(sought) :
              sought[k] = end_of_header + (k - 1) * block_size
        /\ pc = "scan_test" => i = Len(sought) * block_size
        /\ pc \in {"read_block", "decrypt_block", "compare"} =>
              i = (Len(sought) - (IF pc = "read_block" THEN 0 ELSE 1))
                      * block_size
        /\ outcome \in {"running", "Index", "BlockNotFoundError"}
        /\ pc = "exited" => Len(sought) = Cardinality(ScanIndices)
        /\ pc \in {"fclose", "RSA_free", "done"} =>
              Len(sought) = selected_block_index + 1

C16_Witness ==
    /\ Terminated /\ strategy = "slow"
    /\ \E j \in ScanIndices :
          /\ j + 1 < Len(sought)
          /\ ~Decrypts(j)
          /\ Len(fread(encrypted_file, ScanOrigin + j * block_size,
                       private_key_file.size)) \in 1..(private_key_file.size - 1)

(* C17: the password is only read: on every path, match, not found,        *)
(* header or I/O failure, its bytes and its length stay as they were, and  *)
(* nothing zeroes it.                                                      *)
C17_PasswordUntouched == [][password' = password]_vars

C17_Witness ==
    /\ pc = "done" /\ strategy = "slow"
    /\ password # << >>
    /\ SubSeq(decrypted_block, decrypted_block_len + 1, Len(decrypted_block))
          = password

(* C18: for block_size <= rsa_block_size, the plaintext of a successful    *)
(* decryption plus the password never exceeds the room of the              *)
(* concatenation buffer, block_size + password length.                     *)
C18_ConcatenationFits ==
    block_size <= rsa_block_size =>
        /\ overrun = 0
        /\ pc = "compare" =>
              decrypted_block_len + Len(password) <= Capacity

(* The state part of C19. *)
ScanBounded ==
    /\ strategy = "slow" =>
          /\ block_size >= 1
          /\ Len(sought) <=
                (encrypted_file_size + block_size - 1) \div block_size
          /\ \A k \in 1..(Len(sought) - 1) : sought[k] < sought[k + 1]
          /\ Terminated => outcome \in {"Index", "BlockNotFoundError"}
    /\ ~Terminated => ENABLED Next

C19_Witness ==
    /\ pc = "exited" /\ strategy = "slow"
    /\ encrypted_file_size % block_size # 0
    /\ Len(sought) = (encrypted_file_size + block_size - 1) \div block_size
    /\ Len(sought) >= 2

(* The process is single-threaded and runs every step it can take. *)
FairSpec == Spec /\ WF_vars(Next)

(* C19: for an accepted block_size the slow scan makes at most             *)
(* ceil(file_size / block_size) iterations, each at a larger offset than   *)
(* the one before, and it terminates, in a returned index or in            *)
(* block-not-found.                                                        *)
C19_ScanTerminates ==
    []ScanBounded /\ ((strategy = "slow") ~> Terminated)
====
